---- MODULE Spec2Model ----
(***************************************************************************)
(* Model of app.py, the Flask resume analyzer: the /analyze pipeline       *)
(* (upload write, text extraction, skill analysis, AI call, HTML render),  *)
(* the resumes table, the temp directory and send_email.                   *)
(*                                                                         *)
(* Python strings that the code searches, splits or lower-cases are        *)
(* sequences of one-character strings, so that `in`, rsplit and lower()    *)
(* are computed and not assumed.  Floats with two decimals are integers    *)
(* counting hundredths (1818 stands for 18.18).                            *)
(***************************************************************************)
EXTENDS Integers, Sequences, FiniteSets, TLC

VARIABLES
    config,       \* app.config: MAIL_USERNAME, MAIL_PASSWORD (read at start-up)
    tableExists,  \* the resumes table exists in resumes.db
    resumes,      \* rows of the resumes table, in insertion order
    temp,         \* the temp directory: path -> content of the file
    writers,      \* history: path -> requests that wrote the path
    req,          \* per request: position in analyze() and its locals
    outbox,       \* messages handed to mail.send, in order
    mailCalls,    \* history: send_email calls, with how each ended
    call_text,    \* argument of a direct analyze_resume call
    call_result   \* what that call returned: <<>> before it, <<dict>> after

vars == <<config, tableExists, resumes, temp, writers, req, outbox,
          mailCalls, call_text, call_result>>

None == "None"

(***************************************************************************)
(* Bounds of the model.                                                    *)
(***************************************************************************)
NumRequests == 2
MaxFrags == 3
MaxEmails == 1

(***************************************************************************)
(* String primitives of Python, on sequences of characters.                *)
(***************************************************************************)
UpperCase == <<"A", "B", "C", "D", "E", "F", "G", "H", "I", "J", "K", "L", "M",
               "N", "O", "P", "Q", "R", "S", "T", "U", "V", "W", "X", "Y", "Z">>
LowerCase == <<"a", "b", "c", "d", "e", "f", "g", "h", "i", "j", "k", "l", "m",
               "n", "o", "p", "q", "r", "s", "t", "u", "v", "w", "x", "y", "z">>

\* c.lower() for one character
LowerChar(c) ==
    IF \E i \in 1..26 : UpperCase[i] = c
    THEN LowerCase[CHOOSE i \in 1..26 : UpperCase[i] = c]
    ELSE c

\* the characters that occur in the model, and c.lower() tabulated on them
Alphabet ==
    {UpperCase[i] : i \in 1..26} \cup {LowerCase[i] : i \in 1..26}
    \cup {" ", ".", "/", ":", "*", "\n", "-", "0", "1", "5"}
LowerTable == [c \in Alphabet |-> LowerChar(c)]

\* s.lower()
lower(s) == [i \in 1..Len(s) |-> LowerTable[s[i]]]

\* `s in t` for strings: s is a contiguous part of t
In(s, t) ==
    \E i \in 0..(Len(t) - Len(s)) : SubSeq(t, i + 1, i + Len(s)) = s

\* ''.join(parts)
RECURSIVE Concat(_)
Concat(parts) ==
    IF parts = <<>> THEN <<>> ELSE Head(parts) \o Concat(Tail(parts))

(***************************************************************************)
(* REQUIRED_SKILLS and the spelling of each skill.                         *)
(***************************************************************************)
REQUIRED_SKILLS ==
    <<"Python", "JavaScript", "Machine Learning", "Flask", "React", "SQL",
      "Data Science", "HTML", "CSS", "NLP", "AI">>

Chars ==
    [skill \in {REQUIRED_SKILLS[i] : i \in 1..Len(REQUIRED_SKILLS)} |->
       CASE skill = "Python" -> <<"P", "y", "t", "h", "o", "n">>
         [] skill = "JavaScript" -> <<"J", "a", "v", "a", "S", "c", "r", "i", "p", "t">>
         [] skill = "Machine Learning" ->
              <<"M", "a", "c", "h", "i", "n", "e", " ", "L", "e", "a", "r", "n", "i", "n", "g">>
         [] skill = "Flask" -> <<"F", "l", "a", "s", "k">>
         [] skill = "React" -> <<"R", "e", "a", "c", "t">>
         [] skill = "SQL" -> <<"S", "Q", "L">>
         [] skill = "Data Science" ->
              <<"D", "a", "t", "a", " ", "S", "c", "i", "e", "n", "c", "e">>
         [] skill = "HTML" -> <<"H", "T", "M", "L">>
         [] skill = "CSS" -> <<"C", "S", "S">>
         [] skill = "NLP" -> <<"N", "L", "P">>
         [] skill = "AI" -> <<"A", "I">>]

KW_PROJECTS == <<"p", "r", "o", "j", "e", "c", "t", "s">>
KW_EXPERIENCE == <<"e", "x", "p", "e", "r", "i", "e", "n", "c", "e">>
KW_EDUCATION == <<"e", "d", "u", "c", "a", "t", "i", "o", "n">>
KW_CERTIFICATION == <<"c", "e", "r", "t", "i", "f", "i", "c", "a", "t", "i", "o", "n">>

REC_PROJECTS == "Consider adding a Projects section with real-world applications."
REC_EXPERIENCE == "Mention work experience or internships to strengthen your resume."
REC_EDUCATION == "Include your educational background."
REC_CERTIFICATION == "Adding certifications can improve credibility."

(***************************************************************************)
(* analyze_resume, line by line.                                           *)
(***************************************************************************)
\* variant of found_skills: the comparison without .lower()
found_skills_mut(t) ==
    SelectSeq(REQUIRED_SKILLS, LAMBDA skill : In(Chars[skill], t))
\* [skill for skill in REQUIRED_SKILLS if skill.lower() in text.lower()]
found_skills(t) ==
    SelectSeq(REQUIRED_SKILLS, LAMBDA skill : In(lower(Chars[skill]), lower(t)))

\* [skill for skill in REQUIRED_SKILLS if skill.lower() not in text.lower()]
missing_skills(t) ==
    SelectSeq(REQUIRED_SKILLS, LAMBDA skill : ~In(lower(Chars[skill]), lower(t)))

\* variant of percentage: the fraction without the * 100
percentage_mut(found) ==
    [num |-> Len(found), den |-> Len(REQUIRED_SKILLS)]
\* (len(found_skills) / len(REQUIRED_SKILLS)) * 100, as an exact fraction
percentage(found) ==
    [num |-> Len(found) * 100, den |-> Len(REQUIRED_SKILLS)]

\* round(x, 2) of a non-negative fraction, in hundredths; ties go to the
\* even neighbour as Python's round does
round2(x) ==
    LET n == x.num * 100
        q == n \div x.den
        r == n % x.den
    IN  IF 2 * r > x.den \/ (2 * r = x.den /\ q % 2 = 1) THEN q + 1 ELSE q

\* variant of recommendations: the four checks as an if/elif chain
recommendations_mut(t) ==
    IF ~In(KW_PROJECTS, lower(t)) THEN <<REC_PROJECTS>>
    ELSE IF ~In(KW_EXPERIENCE, lower(t)) THEN <<REC_EXPERIENCE>>
    ELSE IF ~In(KW_EDUCATION, lower(t)) THEN <<REC_EDUCATION>>
    ELSE IF ~In(KW_CERTIFICATION, lower(t)) THEN <<REC_CERTIFICATION>>
    ELSE <<>>
\* the four `if "<keyword>" not in text.lower()` appends, in source order
recommendations(t) ==
    (IF ~In(KW_PROJECTS, lower(t)) THEN <<REC_PROJECTS>> ELSE <<>>)
    \o (IF ~In(KW_EXPERIENCE, lower(t)) THEN <<REC_EXPERIENCE>> ELSE <<>>)
    \o (IF ~In(KW_EDUCATION, lower(t)) THEN <<REC_EDUCATION>> ELSE <<>>)
    \o (IF ~In(KW_CERTIFICATION, lower(t)) THEN <<REC_CERTIFICATION>> ELSE <<>>)

(***************************************************************************)
(* get_resume_suggestions: the generative model either answers with a text *)
(* or raises; every exception becomes "AI Error: <message>".               *)
(***************************************************************************)
AI_ERROR == <<"A", "I", " ", "E", "r", "r", "o", "r", ":", " ">>

PROMPT ==
    <<"S", "u", "g", "g", "e", "s", "t", " ", "i", "m", "p", "r", "o", "v", "e",
      "m", "e", "n", "t", "s", " ", "f", "o", "r", " ", "t", "h", "i", "s", " ",
      "r", "e", "s", "u", "m", "e", " ", "i", "n", " ", "5", "-", "1", "0", " ",
      "p", "o", "i", "n", "t", "s", " ", "k", "e", "e", "p", " ", "i", "t", " ",
      "p", "o", "i", "n", "t", "i", "s", "e", " ", "a", "n", "d", " ", "d", "o",
      "n", "t", " ", "u", "s", "e", " ", "b", "o", "l", "d", ":", "\n">>

\* what model.generate_content(...).text can do: answer or raise
AiOutcomes ==
    { [ok |-> TRUE,  val |-> <<"*", " ", "a", "d", "d", "\n", "*", " ", "f", "i", "x">>],
      [ok |-> TRUE,  val |-> <<>>],
      [ok |-> FALSE, val |-> <<"q", "u", "o", "t", "a">>] }

\* variant of get_resume_suggestions: the message without "AI Error: "
get_resume_suggestions_mut(t, outcome) == outcome.val
get_resume_suggestions(t, outcome) ==
    IF outcome.ok THEN outcome.val ELSE AI_ERROR \o outcome.val

\* the dict analyze_resume returns
analyze_resume(t, outcome) ==
    [skills_matched   |-> found_skills(t),
     missing_skills   |-> missing_skills(t),
     match_percentage |-> round2(percentage(found_skills(t))),
     recommendations  |-> recommendations(t),
     ai_suggestions   |-> get_resume_suggestions(t, outcome)]

(***************************************************************************)
(* Uploaded files.  A file is what the client sends in the `resume` field: *)
(* a filename and a content.  The parsing libraries are black boxes: the   *)
(* PDF parser returns the text of a PDF and raises on anything else, the   *)
(* DOCX parser returns the paragraphs of a DOCX and raises on anything     *)
(* else.                                                                   *)
(***************************************************************************)
PDF_DOC ==
    [fmt |-> "pdf",
     text |-> <<"P", "y", "t", "h", "o", "n", " ", "S", "Q", "L", " ",
                "e", "d", "u", "c", "a", "t", "i", "o", "n">>]
DOCX_EMPTY == [fmt |-> "docx", paragraphs |-> <<>>]
DOCX_DOC ==
    [fmt |-> "docx",
     paragraphs |-> << <<"A", "I">>, <<"m", "y", " ", "p", "r", "o", "j", "e", "c", "t", "s">> >>]
TXT_DOC == [fmt |-> "txt"]
PARTIAL == [fmt |-> "partial"]

Files ==
    { [filename |-> <<"A", ".", "b", ".", "P", "D", "F">>, content |-> DOCX_DOC],
      [filename |-> <<"p", "d", "f">>,                     content |-> PDF_DOC],
      [filename |-> <<"c", "v", ".", "d", "o", "c", "x">>, content |-> DOCX_EMPTY],
      [filename |-> <<"n", ".", "t", "x", "t">>,           content |-> TXT_DOC] }

\* sep.join(parts)
RECURSIVE Join(_, _)
Join(sep, parts) ==
    IF parts = <<>> THEN <<>>
    ELSE IF Len(parts) = 1 THEN Head(parts)
    ELSE Head(parts) \o sep \o Join(sep, Tail(parts))

ERR_PDF ==
    <<"E", "r", "r", "o", "r", " ", "e", "x", "t", "r", "a", "c", "t", "i", "n", "g",
      " ", "t", "e", "x", "t", " ", "f", "r", "o", "m", " ", "P", "D", "F", ":", " ">>
ERR_DOCX ==
    <<"E", "r", "r", "o", "r", " ", "e", "x", "t", "r", "a", "c", "t", "i", "n", "g",
      " ", "t", "e", "x", "t", " ", "f", "r", "o", "m", " ", "D", "O", "C", "X", ":", " ">>
MSG_PDF == <<"N", "o", " ", "/", "R", "o", "o", "t", " ", "o", "b", "j", "e", "c", "t">>
MSG_DOCX ==
    <<"F", "i", "l", "e", " ", "i", "s", " ", "n", "o", "t", " ", "a", " ", "z", "i", "p",
      " ", "f", "i", "l", "e">>

\* try: return pdfminer.high_level.extract_text(pdf_path) / except: error string
extract_text_from_pdf(content) ==
    IF content.fmt = "pdf" THEN content.text ELSE ERR_PDF \o MSG_PDF

\* try: '\n'.join(para.text for para in doc.paragraphs) / except: error string
extract_text_from_docx(content) ==
    IF content.fmt = "docx" THEN Join(<<"\n">>, content.paragraphs)
    ELSE ERR_DOCX \o MSG_DOCX

(***************************************************************************)
(* file.filename.rsplit('.', 1)[-1].lower()                                *)
(***************************************************************************)
HasDot(s) == \E i \in 1..Len(s) : s[i] = "."
LastDot(s) == CHOOSE i \in 1..Len(s) : s[i] = "." /\ \A j \in (i + 1)..Len(s) : s[j] # "."
FirstDot(s) == CHOOSE i \in 1..Len(s) : s[i] = "." /\ \A j \in 1..(i - 1) : s[j] # "."

\* variant of rsplit_last: split('.', 1), at the first '.'
rsplit_last_mut(s) ==
    IF HasDot(s) THEN SubSeq(s, FirstDot(s) + 1, Len(s)) ELSE s
\* s.rsplit('.', 1)[-1]: what follows the last '.', the whole of s without one
rsplit_last(s) ==
    IF HasDot(s) THEN SubSeq(s, LastDot(s) + 1, Len(s)) ELSE s

EXT_PDF == <<"p", "d", "f">>

\* variant of uuid4: one value drawn at import time and reused
uuid4_mut(r) == 1
\* uuid.uuid4() as called while serving request r.  A draw has 122 random
\* bits, so two draws are taken to differ; the values are only compared with
\* each other, so the draw of request r is named r.
uuid4(r) == r

\* os.path.join("temp", f"{uuid}.{ext}")
Path(u, ext) == [dir |-> "temp", uuid |-> u, ext |-> ext]

(***************************************************************************)
(* json_to_html: the report, by its interpolated parts.                    *)
(***************************************************************************)
BULLET == <<"&", "#", "8", "2", "2", "6", ";">>
BR == <<"<", "b", "r", ">">>

\* s.replace(old, new) for a one-character old
Replace(s, old, new) ==
    Concat([i \in 1..Len(s) |-> IF s[i] = old THEN new ELSE <<s[i]>>])

\* the |join(", ") filter, on skill names
RECURSIVE JoinNames(_)
JoinNames(names) ==
    IF names = <<>> THEN <<>>
    ELSE IF Len(names) = 1 THEN names
    ELSE <<Head(names), ", ">> \o JoinNames(Tail(names))

json_to_html(data) ==
    [kind       |-> "html",
     matched    |-> JoinNames(data.skills_matched),
     missing    |-> JoinNames(data.missing_skills),
     percentage |-> data.match_percentage,
     ai         |-> Replace(Replace(data.ai_suggestions, "*", BULLET), "\n", BR)]

(***************************************************************************)
(* State of a request.                                                     *)
(***************************************************************************)
Requests == 1..NumRequests

IdleRequest ==
    [pc |-> "idle", route |-> None, has_file |-> FALSE, file |-> None,
     ext |-> None, filepath |-> None, text |-> None,
     found_skills |-> None, missing_skills |-> None, percentage |-> None,
     recommendations |-> None, ai_prompt |-> None, ai_outcome |-> None,
     result |-> None,
     status |-> 0, body |-> None,
     steps |-> <<>>, save |-> None, read |-> None]

Configs ==
    [MAIL_USERNAME : {None, "", "me@x"}, MAIL_PASSWORD : {None, "", "pw"}]

ServerInit ==
    /\ tableExists = TRUE
    /\ resumes = <<>>
    /\ temp = <<>>
    /\ writers = <<>>
    /\ req = [r \in Requests |-> IdleRequest]
    /\ outbox = <<>>
    /\ mailCalls = <<>>

Put(f, k, v) == [x \in DOMAIN f \cup {k} |-> IF x = k THEN v ELSE f[x]]

(***************************************************************************)
(* GET /                                                                   *)
(***************************************************************************)
home(r) ==
    /\ req[r].pc = "idle"
    /\ req' = [req EXCEPT ![r] =
                 [@ EXCEPT !.pc = "done", !.route = "/", !.status = 200,
                           !.body = [kind |-> "template", name |-> "index.html"]]]
    /\ UNCHANGED <<config, tableExists, resumes, temp, writers, outbox,
                   mailCalls, call_text, call_result>>

(***************************************************************************)
(* POST /analyze, one action per blocking step of analyze().               *)
(***************************************************************************)
\* variant of analyze_no_file: the error body with the default status
analyze_no_file_mut(r) ==
    /\ req[r].pc = "idle"
    /\ req' = [req EXCEPT ![r] =
                 [@ EXCEPT !.pc = "done", !.route = "/analyze", !.status = 200,
                           !.body = [kind |-> "json", error |-> "No file uploaded"]]]
    /\ UNCHANGED <<config, tableExists, resumes, temp, writers, outbox,
                   mailCalls, call_text, call_result>>
\* lines 208-209: no `resume` field
analyze_no_file(r) ==
    /\ req[r].pc = "idle"
    /\ req' = [req EXCEPT ![r] =
                 [@ EXCEPT !.pc = "done", !.route = "/analyze", !.status = 400,
                           !.body = [kind |-> "json", error |-> "No file uploaded"]]]
    /\ UNCHANGED <<config, tableExists, resumes, temp, writers, outbox,
                   mailCalls, call_text, call_result>>

\* lines 211-214: the extension, the uuid, the path
analyze_receive(r, file) ==
    /\ req[r].pc = "idle"
    /\ LET ext == lower(rsplit_last(file.filename))
           u   == uuid4(r)
       IN  req' = [req EXCEPT ![r] =
                   [@ EXCEPT !.pc = "save", !.route = "/analyze",
                             !.has_file = TRUE, !.file = file, !.ext = ext,
                             !.filepath = Path(u, ext)]]
    /\ UNCHANGED <<config, tableExists, resumes, temp, writers, outbox,
                   mailCalls, call_text, call_result>>

\* line 215, file.save(filepath): the write succeeds, or open() fails and
\* nothing is created, or the write fails part-way and leaves a partial
\* file; either failure is an unhandled exception, which Flask answers
\* with 500.
SaveOutcomes == {"ok", "open_fails", "write_fails"}

analyze_save(r, outcome) ==
    /\ req[r].pc = "save"
    /\ LET fp == req[r].filepath
       IN  /\ temp' = CASE outcome = "ok" -> Put(temp, fp, req[r].file.content)
                        [] outcome = "write_fails" -> Put(temp, fp, PARTIAL)
                        [] OTHER -> temp
           /\ writers' = IF outcome = "open_fails" THEN writers
                         ELSE Put(writers, fp,
                                  (IF fp \in DOMAIN writers THEN writers[fp] ELSE {})
                                  \cup {r})
           /\ req' = [req EXCEPT ![r] =
                        IF outcome = "ok"
                        THEN [@ EXCEPT !.pc = "extract", !.save = outcome,
                                       !.steps = Append(@, "save")]
                        ELSE [@ EXCEPT !.pc = "done", !.save = outcome,
                                       !.steps = Append(@, "save"),
                                       !.status = 500,
                                       !.body = [kind |-> "error"]]]
    /\ UNCHANGED <<config, tableExists, resumes, outbox, mailCalls,
                   call_text, call_result>>

\* line 217: one extractor, chosen by the extension, reads the file at filepath
analyze_extract(r) ==
    /\ req[r].pc = "extract"
    /\ LET fp      == req[r].filepath
           content == temp[fp]
           pdf     == req[r].ext = EXT_PDF
       IN  req' = [req EXCEPT ![r] =
                     [@ EXCEPT !.pc = "analyze",
                               !.text = IF pdf THEN extract_text_from_pdf(content)
                                        ELSE extract_text_from_docx(content),
                               !.read = [path |-> fp, content |-> content],
                               !.steps = Append(@, IF pdf THEN "extract_pdf"
                                                   ELSE "extract_docx")]]
    /\ UNCHANGED <<config, tableExists, resumes, temp, writers, outbox,
                   mailCalls, call_text, call_result>>

\* analyze_resume, lines 75-87: skills, percentage, recommendations
analyze_skills(r) ==
    /\ req[r].pc = "analyze"
    /\ LET t == req[r].text
       IN  req' = [req EXCEPT ![r] =
                     [@ EXCEPT !.pc = "ai",
                               !.found_skills = found_skills(t),
                               !.missing_skills = missing_skills(t),
                               !.percentage = percentage(found_skills(t)),
                               !.recommendations = recommendations(t),
                               !.steps = Append(@, "analyze")]]
    /\ UNCHANGED <<config, tableExists, resumes, temp, writers, outbox,
                   mailCalls, call_text, call_result>>

\* variant of analyze_ai: the prompt without the resume text
analyze_ai_mut(r, outcome) ==
    /\ req[r].pc = "ai"
    /\ req' = [req EXCEPT ![r] =
                 [@ EXCEPT !.pc = "render",
                           !.ai_prompt = PROMPT, !.ai_outcome = outcome,
                           !.result =
                              [skills_matched   |-> req[r].found_skills,
                               missing_skills   |-> req[r].missing_skills,
                               match_percentage |-> round2(req[r].percentage),
                               recommendations  |-> req[r].recommendations,
                               ai_suggestions   |->
                                  get_resume_suggestions(req[r].text, outcome)],
                           !.steps = Append(@, "ai")]]
    /\ UNCHANGED <<config, tableExists, resumes, temp, writers, outbox,
                   mailCalls, call_text, call_result>>
\* analyze_resume, lines 89-97: the AI call and the returned dict
analyze_ai(r, outcome) ==
    /\ req[r].pc = "ai"
    /\ req' = [req EXCEPT ![r] =
                 [@ EXCEPT !.pc = "render",
                           !.ai_prompt = PROMPT \o req[r].text,
                           !.ai_outcome = outcome,
                           !.result =
                              [skills_matched   |-> req[r].found_skills,
                               missing_skills   |-> req[r].missing_skills,
                               match_percentage |-> round2(req[r].percentage),
                               recommendations  |-> req[r].recommendations,
                               ai_suggestions   |->
                                  get_resume_suggestions(req[r].text, outcome)],
                           !.steps = Append(@, "ai")]]
    /\ UNCHANGED <<config, tableExists, resumes, temp, writers, outbox,
                   mailCalls, call_text, call_result>>

\* line 219: return json_to_html(result)
analyze_render(r) ==
    /\ req[r].pc = "render"
    /\ req' = [req EXCEPT ![r] =
                 [@ EXCEPT !.pc = "done", !.status = 200,
                           !.body = json_to_html(req[r].result),
                           !.steps = Append(@, "render")]]
    /\ UNCHANGED <<config, tableExists, resumes, temp, writers, outbox,
                   mailCalls, call_text, call_result>>

(***************************************************************************)
(* send_email(recipient, analysis).  No route calls it; the action is a    *)
(* direct call of the function.                                            *)
(***************************************************************************)
\* `not x` for a value read with os.getenv: None or the empty string
falsy(x) == x = None \/ x = ""

\* variant of credentials_missing: `and` in place of `or`
credentials_missing_mut(cfg) == falsy(cfg.MAIL_USERNAME) /\ falsy(cfg.MAIL_PASSWORD)
\* not app.config['MAIL_USERNAME'] or not app.config['MAIL_PASSWORD']
credentials_missing(cfg) == falsy(cfg.MAIL_USERNAME) \/ falsy(cfg.MAIL_PASSWORD)

\* Message(subject, sender=..., recipients=[recipient]) and its body
Message(cfg, recipient, analysis) ==
    [subject    |-> "Your Resume Analysis Report",
     sender     |-> cfg.MAIL_USERNAME,
     recipients |-> <<recipient>>,
     body       |-> [skills_matched   |-> JoinNames(analysis.skills_matched),
                     missing_skills   |-> JoinNames(analysis.missing_skills),
                     match_percentage |-> analysis.match_percentage,
                     recommendations  |-> JoinNames(analysis.recommendations),
                     ai_suggestions   |-> analysis.ai_suggestions]]

Recipients == {"ann@example.org", "bob@example.org"}

\* the call returns ("skipped", "sent") or mail.send raises ("raised")
send_email(recipient, analysis, transport_ok) ==
    /\ Len(mailCalls) < MaxEmails
    /\ IF credentials_missing(config)
       THEN /\ outbox' = outbox
            /\ mailCalls' = Append(mailCalls,
                                   [recipient |-> recipient, outcome |-> "skipped"])
       ELSE /\ outbox' = Append(outbox, Message(config, recipient, analysis))
            /\ mailCalls' = Append(mailCalls,
                                   [recipient |-> recipient,
                                    outcome |-> IF transport_ok THEN "sent" ELSE "raised"])
    /\ UNCHANGED <<config, tableExists, resumes, temp, writers, req,
                   call_text, call_result>>

(***************************************************************************)
(* The server: any number of requests up to NumRequests, interleaved at    *)
(* their blocking steps.                                                   *)
(***************************************************************************)
ServerAiOutcomes ==
    { [ok |-> TRUE,  val |-> <<"*", " ", "a", "d", "d", "\n", "*", " ", "f", "i", "x">>],
      [ok |-> FALSE, val |-> <<"q", "u", "o", "t", "a">>] }

Init ==
    /\ ServerInit
    /\ config = [MAIL_USERNAME |-> None, MAIL_PASSWORD |-> None]
    /\ call_text = <<>>
    /\ call_result = <<>>

Next ==
    \E r \in Requests :
        \/ home(r)
        \/ analyze_no_file(r)
        \/ \E file \in Files : analyze_receive(r, file)
        \/ \E outcome \in SaveOutcomes : analyze_save(r, outcome)
        \/ analyze_extract(r)
        \/ analyze_skills(r)
        \/ \E outcome \in ServerAiOutcomes : analyze_ai(r, outcome)
        \/ analyze_render(r)

Spec == Init /\ [][Next]_vars

(***************************************************************************)
(* The server with every mail configuration and with callers of            *)
(* send_email.                                                             *)
(***************************************************************************)
MailRequests == {1}
MailFiles == { [filename |-> <<"a", ".", "b", ".", "p", "d", "f">>, content |-> PDF_DOC] }
MailAiOutcomes == { [ok |-> FALSE, val |-> <<"q", "u", "o", "t", "a">>] }
MailAnalyses == { analyze_resume(PDF_DOC.text, outcome) : outcome \in MailAiOutcomes }

InitMail ==
    /\ ServerInit
    /\ config \in Configs
    /\ call_text = <<>>
    /\ call_result = <<>>

HttpStep ==
    \E r \in MailRequests :
        \/ home(r)
        \/ analyze_no_file(r)
        \/ \E file \in MailFiles : analyze_receive(r, file)
        \/ \E outcome \in SaveOutcomes : analyze_save(r, outcome)
        \/ analyze_extract(r)
        \/ analyze_skills(r)
        \/ \E outcome \in MailAiOutcomes : analyze_ai(r, outcome)
        \/ analyze_render(r)

NextMail ==
    \/ HttpStep
    \/ \E recipient \in Recipients, analysis \in MailAnalyses, ok \in BOOLEAN :
          send_email(recipient, analysis, ok)

SpecMail == InitMail /\ [][NextMail]_vars

(***************************************************************************)
(* analyze_resume called directly on a text.                               *)
(***************************************************************************)
Fragments ==
    { <<"P", "y", "t", "h", "o", "n">>, <<"S", "Q", "L">>,
      <<"e", "d", "u", "c", "a", "t", "i", "o", "n">>,
      <<"A">>, <<"I">>,
      <<"P", "r", "o", "j", "e", "c", "t", "s">>,
      <<"e", "x", "p", "e", "r", "i", "e", "n", "c", "e">>,
      <<"C", "E", "R", "T", "I", "F", "I", "C", "A", "T", "I", "O", "N">>,
      <<"h", "t", "m", "l">>, <<"m", "a", "i", "n">> }

Texts == { Concat(fs) : fs \in UNION { [1..n -> Fragments] : n \in 0..MaxFrags } }

call_analyze_resume(outcome) ==
    /\ call_result = <<>>
    /\ call_result' = <<analyze_resume(call_text, outcome)>>
    /\ UNCHANGED <<call_text, config, tableExists, resumes, temp, writers,
                   req, outbox, mailCalls>>

InitAnalyzer ==
    /\ ServerInit
    /\ config = [MAIL_USERNAME |-> None, MAIL_PASSWORD |-> None]
    /\ call_text \in Texts
    /\ call_result = <<>>

NextAnalyzer == \E outcome \in AiOutcomes : call_analyze_resume(outcome)

SpecAnalyzer == InitAnalyzer /\ [][NextAnalyzer]_vars

(***************************************************************************)
(* Vocabulary of the properties, stated without the operators above.       *)
(***************************************************************************)
Range(s) == {s[i] : i \in 1..Len(s)}

\* the characters that are the letter a in either case
SameLetter ==
    [a \in Alphabet |->
       {a} \cup {b \in Alphabet :
                   \E i \in 1..26 : {a, b} = {UpperCase[i], LowerCase[i]}}]

\* k occurs in T when letter case is ignored, compared character by character
ContainsCI(k, T) ==
    \E i \in 1..(Len(T) - Len(k) + 1) :
        \A j \in 1..Len(k) : T[i + j - 1] \in SameLetter[k[j]]

\* s lists elements of list in the order of list, none twice
InListOrder(s, list) ==
    /\ Range(s) \subseteq Range(list)
    /\ \A i, j \in 1..Len(s) :
          i < j => (CHOOSE k \in 1..Len(list) : list[k] = s[i])
                     < (CHOOSE k \in 1..Len(list) : list[k] = s[j])

SkillsIn(T) == {skill \in Range(REQUIRED_SKILLS) : ContainsCI(Chars[skill], T)}

ADVISORIES == <<REC_PROJECTS, REC_EXPERIENCE, REC_EDUCATION, REC_CERTIFICATION>>
KEYWORDS == <<KW_PROJECTS, KW_EXPERIENCE, KW_EDUCATION, KW_CERTIFICATION>>

Returned == call_result # <<>>

T_SCENARIO ==
    <<"P", "y", "t", "h", "o", "n">> \o <<"S", "Q", "L">>
    \o <<"e", "d", "u", "c", "a", "t", "i", "o", "n">>

(***************************************************************************)
(* C1: for every text T, skills_matched and missing_skills of              *)
(* analyze_resume(T) partition the 11 skills: a skill is matched exactly   *)
(* when it occurs in T ignoring case, otherwise it is missing; the two     *)
(* have no common element, together hold every skill, and each keeps the   *)
(* order of REQUIRED_SKILLS.                                               *)
(***************************************************************************)
C1_SkillsPartition ==
    Returned =>
        LET res     == call_result[1]
            present == SkillsIn(call_text)
        IN  /\ Len(REQUIRED_SKILLS) = 11
            /\ Range(res.skills_matched) = present
            /\ Range(res.missing_skills) = Range(REQUIRED_SKILLS) \ present
            /\ Range(res.skills_matched) \cap Range(res.missing_skills) = {}
            /\ Range(res.skills_matched) \cup Range(res.missing_skills)
                  = Range(REQUIRED_SKILLS)
            /\ InListOrder(res.skills_matched, REQUIRED_SKILLS)
            /\ InListOrder(res.missing_skills, REQUIRED_SKILLS)

\* the text "htmlmain" matches HTML and, inside "main", AI
C1_Witness ==
    /\ Returned
    /\ call_text = <<"h", "t", "m", "l", "m", "a", "i", "n">>
    /\ call_result[1].skills_matched = <<"HTML", "AI">>
    /\ Len(call_result[1].missing_skills) = 9

(***************************************************************************)
(* C2: match_percentage is 100 * (skills occurring in T ignoring case)     *)
(* / 11 rounded to 2 decimals: the number of hundredths nearest to the     *)
(* quotient.  It lies between 0 and 100, it is 0.0 for the empty text,     *)
(* which also gets all four recommendations, and the divisor is not zero.  *)
(***************************************************************************)
C2_MatchPercentage ==
    Returned =>
        LET res   == call_result[1]
            h     == res.match_percentage
            count == Cardinality(SkillsIn(call_text))
            diff  == 11 * h - 100 * 100 * count
        IN  /\ percentage(res.skills_matched).den = 11
            /\ 2 * diff <= 11 /\ 2 * diff >= -11
            /\ h >= 0 /\ h <= 100 * 100
            /\ call_text = <<>> =>
                  /\ h = 0
                  /\ res.recommendations = ADVISORIES

\* "Python", "SQL" and "education": 2 of 11 skills, 18.18
C2_Witness ==
    /\ Returned
    /\ call_text = T_SCENARIO
    /\ call_result[1].skills_matched = <<"Python", "SQL">>
    /\ call_result[1].match_percentage = 1818

(***************************************************************************)
(* C7: the recommendations hold the advisory of each of the four keywords  *)
(* exactly when the keyword does not occur in T ignoring case; each check  *)
(* stands alone, and the advisories present are in the order Projects,     *)
(* Experience, Education, Certification, none twice.                       *)
(***************************************************************************)
C7_Recommendations ==
    Returned =>
        LET recs == call_result[1].recommendations
        IN  /\ \A i \in 1..4 :
                  (ADVISORIES[i] \in Range(recs)) <=> ~ContainsCI(KEYWORDS[i], call_text)
            /\ InListOrder(recs, ADVISORIES)
            /\ Len(recs) <= 4

\* only "education" is present: the other three advisories, in order
C7_Witness ==
    /\ Returned
    /\ call_text = T_SCENARIO
    /\ call_result[1].recommendations
          = <<REC_PROJECTS, REC_EXPERIENCE, REC_CERTIFICATION>>

(***************************************************************************)
(* Vocabulary of the request properties.                                   *)
(***************************************************************************)
Carried(r) == req[r].route = "/analyze" /\ req[r].has_file
Done(r) == req[r].pc = "done"
Written(r) == Carried(r) /\ req[r].save = "ok"
Extracted(r) == Written(r) /\ req[r].pc \in {"analyze", "ai", "render", "done"}
AiCalled(r) == Written(r) /\ req[r].pc \in {"render", "done"}
Answered200(r) ==
    /\ Done(r)
    /\ req[r].status = 200
    /\ req[r].body.kind = "html"
ExtractSteps(r) ==
    {i \in 1..Len(req[r].steps) : req[r].steps[i] \in {"extract_pdf", "extract_docx"}}
ExtractionFailed(r) ==
    /\ Extracted(r)
    /\ \/ req[r].steps[2] = "extract_pdf" /\ req[r].read.content.fmt # "pdf"
       \/ req[r].steps[2] = "extract_docx" /\ req[r].read.content.fmt # "docx"
FilesWrittenBy(r) == {p \in DOMAIN writers : r \in writers[p]}

(***************************************************************************)
(* C3: a POST /analyze that carries a file and whose write succeeds ends   *)
(* with a 200 HTML report whatever extraction and the AI call do: a        *)
(* failing extraction yields "Error extracting text from <FORMAT>: <msg>", *)
(* which is analyzed like any text, a failing AI call yields               *)
(* "AI Error: <msg>", and no later step is skipped.                        *)
(***************************************************************************)
C3_SoftFailure ==
    \A r \in Requests :
        /\ (Written(r) /\ Done(r)) =>
              /\ Answered200(r)
              /\ Len(req[r].steps) = 5
              /\ Range(req[r].result.skills_matched) = SkillsIn(req[r].text)
              /\ req[r].body.ai
                    = Replace(Replace(req[r].result.ai_suggestions, "*", BULLET), "\n", BR)
        /\ ExtractionFailed(r) =>
              \/ req[r].steps[2] = "extract_pdf" /\ req[r].text = ERR_PDF \o MSG_PDF
              \/ req[r].steps[2] = "extract_docx" /\ req[r].text = ERR_DOCX \o MSG_DOCX
        /\ (AiCalled(r) /\ ~req[r].ai_outcome.ok) =>
              req[r].result.ai_suggestions = AI_ERROR \o req[r].ai_outcome.val

\* extraction failed, the AI call failed, and the report is served
C3_Witness ==
    \E r \in Requests :
        /\ ExtractionFailed(r)
        /\ AiCalled(r) /\ ~req[r].ai_outcome.ok
        /\ Answered200(r)

(***************************************************************************)
(* C4 as stated: without a `resume` field the answer is 400 with           *)
(* {"error": "No file uploaded"} and nothing is written, extracted or sent *)
(* to the AI; with the field the answer is always 200 with an HTML body.   *)
(***************************************************************************)
NoFileAnswer(r) ==
    (Done(r) /\ req[r].route = "/analyze" /\ ~req[r].has_file) =>
        /\ req[r].status = 400
        /\ req[r].body = [kind |-> "json", error |-> "No file uploaded"]
        /\ FilesWrittenBy(r) = {}
        /\ req[r].steps = <<>>
        /\ req[r].read = None /\ req[r].ai_prompt = None

C4_Original ==
    \A r \in Requests :
        /\ NoFileAnswer(r)
        /\ (Done(r) /\ Carried(r)) => Answered200(r)

(***************************************************************************)
(* C4 amended: without the field, as above; with the field the answer is   *)
(* 200 with an HTML body when the disk write succeeds, and the unhandled   *)
(* error of a failing write is answered with 500.                          *)
(***************************************************************************)
C4_Amended ==
    \A r \in Requests :
        /\ NoFileAnswer(r)
        /\ (Done(r) /\ Written(r)) => Answered200(r)
        /\ (Done(r) /\ Carried(r) /\ ~Written(r)) => req[r].status = 500

\* one request was refused with 400 and another was served its report
C4_Witness ==
    \E r, q \in Requests :
        /\ Done(r) /\ req[r].route = "/analyze" /\ ~req[r].has_file
        /\ req[r].status = 400
        /\ Written(q) /\ Answered200(q)

(***************************************************************************)
(* C5: the resumes table holds one row per successful upload, with the     *)
(* upload's filename, filepath and match_percentage; ids are unique and    *)
(* increasing.                                                             *)
(***************************************************************************)
C5_OneRowPerUpload ==
    /\ tableExists
    /\ Len(resumes) = Cardinality({r \in Requests : Written(r) /\ Done(r)})
    /\ \A r \in Requests :
          (Written(r) /\ Done(r)) =>
              \E i \in 1..Len(resumes) :
                  /\ resumes[i].filepath = req[r].filepath
                  /\ resumes[i].match_percentage = req[r].result.match_percentage
    /\ \A i, j \in 1..Len(resumes) : i < j => resumes[i].id < resumes[j].id

(***************************************************************************)
(* Vocabulary of the extension properties.                                 *)
(***************************************************************************)
\* e is the lower-cased part of name after its last '.'
IsLoweredSuffixAfterLastDot(e, name) ==
    \E i \in 1..Len(name) :
        /\ name[i] = "."
        /\ \A j \in 1..Len(e) : e[j] # "."
        /\ Len(e) = Len(name) - i
        /\ \A j \in 1..Len(e) : e[j] = LowerChar(name[i + j])

\* e is the whole of name, lower-cased
IsLowered(e, name) ==
    /\ Len(e) = Len(name)
    /\ \A j \in 1..Len(e) : e[j] = LowerChar(name[j])

\* the extractor that ran is the PDF one exactly for the extension "pdf",
\* and a file the DOCX parser cannot read comes back as an error string
Dispatch(r) ==
    /\ Cardinality(ExtractSteps(r)) = 1
    /\ (req[r].steps[2] = "extract_pdf") <=> (req[r].ext = <<"p", "d", "f">>)
    /\ (req[r].steps[2] = "extract_docx") <=> (req[r].ext # <<"p", "d", "f">>)
    /\ (req[r].steps[2] = "extract_docx" /\ req[r].read.content.fmt # "docx") =>
          SubSeq(req[r].text, 1, Len(ERR_DOCX)) = ERR_DOCX

(***************************************************************************)
(* C6 as stated: for every uploaded filename the extension is the          *)
(* lower-cased part after the last '.', and exactly one extractor runs     *)
(* per request: PDF for "pdf", DOCX for every other extension, whose       *)
(* failure comes back as an error string.                                  *)
(***************************************************************************)
C6_Original ==
    \A r \in Requests :
        /\ Carried(r) => IsLoweredSuffixAfterLastDot(req[r].ext, req[r].file.filename)
        /\ (Carried(r) /\ Done(r)) => Dispatch(r)

(***************************************************************************)
(* C6 amended: a filename with a '.' has the lower-cased part after the    *)
(* last '.' as its extension, a filename without a '.' has the whole       *)
(* lower-cased filename; exactly one extractor runs per request whose      *)
(* upload was written, PDF for "pdf" and DOCX for every other extension,   *)
(* and a request whose write failed runs none.                             *)
(***************************************************************************)
C6_Amended ==
    \A r \in Requests :
        /\ Carried(r) =>
              IF \E i \in 1..Len(req[r].file.filename) : req[r].file.filename[i] = "."
              THEN IsLoweredSuffixAfterLastDot(req[r].ext, req[r].file.filename)
              ELSE IsLowered(req[r].ext, req[r].file.filename)
        /\ Extracted(r) => Dispatch(r)
        /\ (Carried(r) /\ ~Extracted(r)) => ExtractSteps(r) = {}

\* "A.b.PDF" went to the PDF extractor and "n.txt" to the DOCX extractor,
\* which failed on it
C6_Witness ==
    \E r, q \in Requests :
        /\ Extracted(r) /\ Extracted(q)
        /\ req[r].file.filename = <<"A", ".", "b", ".", "P", "D", "F">>
        /\ req[r].ext = <<"p", "d", "f">>
        /\ req[r].steps[2] = "extract_pdf"
        /\ req[q].ext = <<"t", "x", "t">>
        /\ req[q].steps[2] = "extract_docx"
        /\ req[q].text = ERR_DOCX \o MSG_DOCX

(***************************************************************************)
(* C9: under any interleaving each request writes a path temp/<uuid>.<ext> *)
(* that no other request writes, reads back only that path, and extracts   *)
(* the text of the file it uploaded itself; no file is ever deleted or     *)
(* overwritten.                                                            *)
(***************************************************************************)
OwnFileOnly ==
    /\ \A p \in DOMAIN writers : Cardinality(writers[p]) = 1
    /\ DOMAIN temp = DOMAIN writers
    /\ \A p \in DOMAIN temp : p.dir = "temp"
    /\ \A r \in Requests :
          /\ Carried(r) =>
                /\ req[r].filepath.dir = "temp"
                /\ req[r].filepath.ext = req[r].ext
                /\ FilesWrittenBy(r) \subseteq {req[r].filepath}
          /\ Written(r) =>
                /\ FilesWrittenBy(r) = {req[r].filepath}
                /\ temp[req[r].filepath] = req[r].file.content
          /\ Extracted(r) =>
                /\ req[r].read.path = req[r].filepath
                /\ req[r].read.content = req[r].file.content
    /\ \A r, q \in Requests :
          (r # q /\ Carried(r) /\ Carried(q)) => req[r].filepath # req[q].filepath

FilesKept ==
    /\ DOMAIN temp \subseteq DOMAIN temp'
    /\ \A p \in DOMAIN temp : temp'[p] = temp[p]

C9_IsolatedUploads == []OwnFileOnly /\ [][FilesKept]_vars

\* two requests with the same extension and different contents ran
\* together; each extracted its own file
C9_Witness ==
    \E r, q \in Requests :
        /\ r # q
        /\ Extracted(r) /\ Extracted(q)
        /\ req[r].ext = req[q].ext
        /\ req[r].file.content # req[q].file.content
        /\ req[r].read.content = req[r].file.content
        /\ req[q].read.content = req[q].file.content
        /\ Cardinality(DOMAIN temp) = 2

(***************************************************************************)
(* C10: in one request that carries a file the steps are upload write,     *)
(* extraction, analysis, AI call, render, in this order, each once; the    *)
(* AI call gets the text extraction returned; a failing write ends the     *)
(* request before any other step.                                          *)
(***************************************************************************)
IsPrefix(s, t) == Len(s) <= Len(t) /\ SubSeq(t, 1, Len(s)) = s

StepKind(x) == IF x \in {"extract_pdf", "extract_docx"} THEN "extract" ELSE x

PIPELINE == <<"save", "extract", "analyze", "ai", "render">>

C10_StepOrder ==
    \A r \in Requests :
        Carried(r) =>
            /\ IsPrefix([i \in 1..Len(req[r].steps) |-> StepKind(req[r].steps[i])],
                        PIPELINE)
            /\ Len(req[r].steps) =
                  CASE req[r].pc = "save" -> 0
                    [] req[r].pc = "extract" -> 1
                    [] req[r].pc = "analyze" -> 2
                    [] req[r].pc = "ai" -> 3
                    [] req[r].pc = "render" -> 4
                    [] req[r].pc = "done" -> IF req[r].save = "ok" THEN 5 ELSE 1
            /\ (req[r].save \in {"open_fails", "write_fails"}) =>
                  /\ Done(r) /\ req[r].steps = <<"save">>
                  /\ req[r].read = None /\ req[r].ai_prompt = None
                  /\ req[r].status # 200
            /\ AiCalled(r) =>
                  /\ req[r].ai_prompt = PROMPT \o req[r].text
                  /\ req[r].text =
                        IF req[r].steps[2] = "extract_pdf"
                        THEN extract_text_from_pdf(req[r].read.content)
                        ELSE extract_text_from_docx(req[r].read.content)
            /\ (Done(r) /\ req[r].save = "ok") =>
                  req[r].body = json_to_html(req[r].result)

\* a request ran all five steps while another one stopped at a failed write
C10_Witness ==
    \E r, q \in Requests :
        /\ Carried(r) /\ Done(r) /\ Len(req[r].steps) = 5
        /\ req[r].ai_prompt = PROMPT \o PDF_DOC.text
        /\ Carried(q) /\ Done(q) /\ req[q].save = "write_fails"

(***************************************************************************)
(* C8: send_email hands nothing to the mail transport and returns when     *)
(* the mail username or password is unset (None or empty); otherwise it    *)
(* hands exactly one message, addressed to the given recipient only, and   *)
(* a transport failure reaches the caller; no step of an HTTP request      *)
(* hands a message to the transport.                                       *)
(***************************************************************************)
Unset(x) == x \in {None, ""}

Handed == SelectSeq(mailCalls, LAMBDA c : c.outcome # "skipped")

MailHandedOnce ==
    /\ Len(outbox) = Len(Handed)
    /\ \A i \in 1..Len(outbox) :
          /\ outbox[i].recipients = <<Handed[i].recipient>>
          /\ outbox[i].sender = config.MAIL_USERNAME
    /\ \A i \in 1..Len(mailCalls) :
          (mailCalls[i].outcome = "skipped")
              <=> (Unset(config.MAIL_USERNAME) \/ Unset(config.MAIL_PASSWORD))

OneCallOneMessage ==
    /\ (\E r \in Requests : req'[r].pc # req[r].pc) =>
          outbox' = outbox /\ mailCalls' = mailCalls
    /\ mailCalls' # mailCalls =>
          /\ Len(mailCalls') = Len(mailCalls) + 1
          /\ Len(outbox') <= Len(outbox) + 1
          /\ SubSeq(outbox', 1, Len(outbox)) = outbox

====
